---------------------------- MODULE Spec2Model ----------------------------
(***************************************************************************)
(* Model of the two batch jobs of f1_tire_deg:                             *)
(*   scripts/01_fetch_data.py    (fetcher: lap table + pit-stop table)     *)
(*   scripts/02_analyze_stints.py (cleaning, stint summary, degradation    *)
(*                                 fit)                                    *)
(*                                                                         *)
(* A DataFrame is a sequence of row records; the field idx of a row is its *)
(* index label (the RangeIndex read_csv assigns, 0-based).  A missing cell *)
(* (NaN / NaT / pd.NA) of a numeric or timedelta column is NaT; a missing  *)
(* Compound is NoCompound.  Durations are whole seconds, so LapTime_s (the *)
(* result of .dt.total_seconds()) carries the same number.  The Team       *)
(* column is carried by no operation modelled here and is left out.        *)
(* Every driver cell is present (the provider always names the driver).    *)
(***************************************************************************)
EXTENDS Integers, Sequences, FiniteSets, TLC

VARIABLES
    laps,       \* the input lap table (session.laps / the raw lap file's rows)
    pc,         \* position of the running script
    cl,         \* result of clean_laps / per_driver_pace_filter
    st,         \* result of stint_summary
    deg,        \* result of simple_deg_fit: [raised, rows]
    pits,       \* result of pit_table_from_laps
    job,        \* which script runs: "fetch", "clean", or "none"
    rawExists,  \* data/raw/laps_hun_2022.csv exists
    written,    \* output files this run has written in full
    failedAt,   \* the step whose exception reached main's except clause
    stderr,     \* what main printed to sys.stderr
    exitStatus  \* -1 while running, 0 on normal return, 1 after sys.exit(1)

vars == <<laps, pc, cl, st, deg, pits, job, rawExists, written, failedAt,
          stderr, exitStatus>>

---------------------------------------------------------------------------
(* Cell values *)

NaT == -1                      \* missing numeric / timedelta cell
NoCompound == "<NA>"           \* missing Compound cell
Drivers == {"HAM", "VER"}

\* TrackStatus cells are typed: astype(str) depends on the cell's type.
StrCell(s) == [ty |-> "str", s |-> s, n |-> 0]
IntCell(n) == [ty |-> "int", s |-> <<>>, n |-> n]
FloatCell(n) == [ty |-> "float", s |-> <<>>, n |-> n]   \* the float n.0
NaCell == [ty |-> "na", s |-> <<>>, n |-> 0]

isna(c) == c.ty = "na"

Digit(d) == CASE d = 0 -> "0" [] d = 1 -> "1" [] d = 2 -> "2" [] d = 3 -> "3"
              [] d = 4 -> "4" [] d = 5 -> "5" [] d = 6 -> "6" [] d = 7 -> "7"
              [] d = 8 -> "8" [] d = 9 -> "9"

RECURSIVE Digits(_)
Digits(n) == IF n < 10 THEN <<Digit(n)>>
             ELSE Append(Digits(n \div 10), Digit(n % 10))

\* Series.astype(str), cell by cell: str(value).
astype_str(c) ==
    CASE c.ty = "str" -> c.s
      [] c.ty = "int" -> Digits(c.n)
      [] c.ty = "float" -> Digits(c.n) \o <<".", "0">>
      [] c.ty = "na" -> <<"n", "a", "n">>

Whitespace == {" ", "\t", "\n"}

RECURSIVE lstrip(_)
lstrip(s) == IF s # <<>> /\ Head(s) \in Whitespace THEN lstrip(Tail(s)) ELSE s

RECURSIVE rstrip(_)
rstrip(s) == IF s # <<>> /\ s[Len(s)] \in Whitespace
             THEN rstrip(SubSeq(s, 1, Len(s) - 1)) ELSE s

\* Series.str.strip(), cell by cell.
strip(s) == rstrip(lstrip(s))

---------------------------------------------------------------------------
(* Rows *)

Row(i, d, n, t, s, c, a, pin, pout, ts) ==
    [idx |-> i, Driver |-> d, LapNumber |-> n, LapTime |-> t, Stint |-> s,
     Compound |-> c, TyreLife |-> a, PitInTime |-> pin, PitOutTime |-> pout,
     TrackStatus |-> ts, LapTime_s |-> NaT]

Range(s) == {s[i] : i \in DOMAIN s}

RECURSIVE SetToSeq(_)
SetToSeq(S) == IF S = {} THEN <<>>
               ELSE LET x == CHOOSE y \in S : TRUE
                    IN <<x>> \o SetToSeq(S \ {x})

\* Ascending sort of a sequence of integers (np.percentile sorts its sample).
RECURSIVE Insert(_, _)
Insert(x, s) == IF s = <<>> THEN <<x>>
                ELSE IF x <= Head(s) THEN <<x>> \o s
                ELSE <<Head(s)>> \o Insert(x, Tail(s))

RECURSIVE SortInts(_)
SortInts(s) == IF s = <<>> THEN <<>> ELSE Insert(Head(s), SortInts(Tail(s)))

---------------------------------------------------------------------------
(* 02_analyze_stints.py: the filters *)

\* is_green, for one cell of the TrackStatus column.
MutIsGreenNoStrip(ts) == isna(ts) \/ astype_str(ts) = <<"1">>
is_green(ts) == isna(ts) \/ strip(astype_str(ts)) = <<"1">>

\* drop_in_out
MutDropOutLapsOnly(df) == SelectSeq(df, LAMBDA r : r.PitOutTime = NaT)
drop_in_out(df) == SelectSeq(df, LAMBDA r : r.PitOutTime = NaT /\ r.PitInTime = NaT)

\* x["LapTime_s"] = x["LapTime"].dt.total_seconds()
WithSeconds(df) == [i \in DOMAIN df |-> [df[i] EXCEPT !.LapTime_s = df[i].LapTime]]

\* np.percentile(sample, 25 k) with the default linear interpolation, times 4:
\* the virtual index is k (n-1) / 4, between sorted[lo] and sorted[lo+1].
Percentile4(sample, k) ==
    LET s == SortInts(sample)
        n == Len(s)
        pos4 == k * (n - 1)
        lo == pos4 \div 4
        r == pos4 % 4
        hi == IF lo + 1 <= n - 1 THEN lo + 1 ELSE n - 1
    IN 4 * s[lo + 1] + r * (s[hi + 1] - s[lo + 1])

\* fence = q3 + 1.5 * (q3 - q1), times 8.
Fence8(sample) ==
    LET q1 == Percentile4(sample, 1)
        q3 == Percentile4(sample, 3)
    IN 2 * q3 + 3 * (q3 - q1)

HasTime(r) == r.LapTime_s # NaT
TimesOf(df) == [i \in DOMAIN df |-> df[i].LapTime_s]

\* One group of x.groupby("Driver", dropna=False).
MutGroupPooled(x, drv) == x
DriverGroup(x, drv) == SelectSeq(x, LAMBDA r : r.Driver = drv)

\* What the loop appends for one driver: the index labels of the group's
\* laps at or under the group's fence (nothing when gt is empty).
KeepOfDriver(x, drv) ==
    LET gt == SelectSeq(DriverGroup(x, drv), HasTime)
    IN IF gt = <<>> THEN {}
       ELSE {r.idx : r \in {q \in Range(gt) : 8 * q.LapTime_s <= Fence8(TimesOf(gt))}}

\* per_driver_pace_filter.  keep_idx is a list with one entry per driver
\* whose gt is not empty; an empty list selects x.index, that is every row.
per_driver_pace_filter(df) ==
    LET x == WithSeconds(df)
        drvs == {r.Driver : r \in Range(x)}
        appended == {d \in drvs : SelectSeq(DriverGroup(x, d), HasTime) # <<>>}
        keep == UNION {KeepOfDriver(x, d) : d \in appended}
    IN IF appended = {} THEN x
       ELSE SelectSeq(x, LAMBDA r : r.idx \in keep)

\* clean_laps: the four filters in order, then the derived seconds column.
ValidLapTime(df) == SelectSeq(df, LAMBDA r : r.LapTime # NaT)
GreenOnly(df) == SelectSeq(df, LAMBDA r : is_green(r.TrackStatus))
Steps123(df) == drop_in_out(GreenOnly(ValidLapTime(df)))
clean_laps(df) == WithSeconds(per_driver_pace_filter(Steps123(df)))


---------------------------------------------------------------------------
(* 02_analyze_stints.py: stint_summary *)

\* Alphabetical order of the labels the model uses (pandas sorts strings).
StrRank(s) == CASE s = "HAM" -> 1 [] s = "HARD" -> 2 [] s = "MEDIUM" -> 3
                [] s = "SOFT" -> 4 [] s = "VER" -> 5 [] OTHER -> 6

\* Missing values sort last (na_position="last").
NumKey(n) == IF n = NaT THEN 1000000 ELSE n

Min(S) == CHOOSE x \in S : \A y \in S : x <= y
Max(S) == CHOOSE x \in S : \A y \in S : x >= y

\* Lexicographic order of two tuples of integers of one length.
LexLess(a, b) ==
    \E i \in DOMAIN a : a[i] < b[i] /\ \A j \in 1..(i - 1) : a[j] = b[j]

\* Stable sort of s by the keys keys[i] (sort_values on several columns):
\* a row goes after every row of a lesser key and after the rows of an equal
\* key that precede it.
SortByKeys(s, keys) ==
    LET pos(i) == 1 + Cardinality({j \in DOMAIN s :
                        LexLess(keys[j], keys[i]) \/ (keys[j] = keys[i] /\ j < i)})
    IN [p \in DOMAIN s |-> s[CHOOSE i \in DOMAIN s : pos(i) = p]]

\* The keys of df.groupby(["Driver", "Stint", "Compound"], dropna=False):
\* a missing Stint or Compound is a key value like any other.
StintKeys(df) == {<<r.Driver, r.Stint, r.Compound>> : r \in Range(df)}

StintGroup(df, k) ==
    SelectSeq(df, LAMBDA r : <<r.Driver, r.Stint, r.Compound>> = k)

\* ("LapNumber", "count"): the number of non-missing LapNumber cells.
CountLapNumber(g) == Len(SelectSeq(g, LAMBDA r : r.LapNumber # NaT))

StintRow(df, k) ==
    LET g == StintGroup(df, k)
        nums == {r.LapNumber : r \in Range(g)} \ {NaT}
    IN [Driver |-> k[1], Stint |-> k[2], Compound |-> k[3],
        laps |-> CountLapNumber(g),
        start_lap |-> IF nums = {} THEN NaT ELSE Min(nums),
        end_lap |-> IF nums = {} THEN NaT ELSE Max(nums)]

StintKey(r) == <<StrRank(r.Driver), NumKey(r.Stint), StrRank(r.Compound)>>

\* stint_summary: one row per group, sorted by (Driver, Stint); groupby has
\* already ordered the groups by key, and the sort is stable.
stint_summary(df) ==
    LET rows == SetToSeq({StintRow(df, k) : k \in StintKeys(df)})
    IN SortByKeys(rows, [i \in DOMAIN rows |-> StintKey(rows[i])])

---------------------------------------------------------------------------
(* 02_analyze_stints.py: simple_deg_fit *)

MinRows == 20          \* len(g) < 20
MinDistinct == 3       \* g["TyreLife"].nunique() < 3

\* z = df.dropna(subset=["LapTime_s", "TyreLife", "Compound"])
fit_dropna(df) ==
    SelectSeq(df, LAMBDA r : r.LapTime_s # NaT /\ r.TyreLife # NaT
                             /\ r.Compound # NoCompound)

CompoundGroup(z, comp) == SelectSeq(z, LAMBDA r : r.Compound = comp)

nunique(g) == Cardinality({r.TyreLife : r \in Range(g)} \ {NaT})

\* The guard of the loop's continue.
MutFitSkipsOffByOne(g) == Len(g) <= MinRows \/ nunique(g) < MinDistinct
FitSkips(g) == Len(g) < MinRows \/ nunique(g) < MinDistinct

\* simple_deg_fit.  results holds one record per compound group that is not
\* skipped (the fitted numbers are left out: only Compound and n are kept).
\* pd.DataFrame(results) of an empty list has no columns, and
\* .sort_values("Compound") on it raises KeyError.
simple_deg_fit(df) ==
    LET z == fit_dropna(df)
        comps == {r.Compound : r \in Range(z)} \ {NoCompound}
        fitted == {c \in comps : ~FitSkips(CompoundGroup(z, c))}
        results == SetToSeq({[Compound |-> c, n |-> Len(CompoundGroup(z, c))]
                             : c \in fitted})
    IN IF results = <<>>
       THEN [raised |-> TRUE, error |-> "'Compound'", rows |-> <<>>]
       ELSE [raised |-> FALSE, error |-> "", rows |-> SortByKeys(results,
                      [i \in DOMAIN results |-> <<StrRank(results[i].Compound)>>])]

---------------------------------------------------------------------------
(* 01_fetch_data.py: pit_table_from_laps *)

\* laps.loc[laps.get("PitInTime").notna(), cols] with the three renames.
PitLaps(df) ==
    LET sel == SelectSeq(df, LAMBDA r : r.PitInTime # NaT)
    IN [i \in DOMAIN sel |->
          [idx |-> sel[i].idx, Driver |-> sel[i].Driver, Stop |-> 0,
           InLap |-> sel[i].LapNumber, InTime |-> sel[i].PitInTime,
           OutTime |-> sel[i].PitOutTime, Stint |-> sel[i].Stint,
           Compound |-> sel[i].Compound, TyreLife |-> sel[i].TyreLife,
           LapTime |-> sel[i].LapTime]]

PitKey(r) == <<StrRank(r.Driver), NumKey(r.InLap)>>

\* pitlaps.sort_values(["Driver", "InLap"], inplace=True)
MutPitUnsorted(df) == df
sort_pitlaps(df) == SortByKeys(df, [i \in DOMAIN df |-> PitKey(df[i])])

\* pitlaps.groupby("Driver").cumcount() + 1
StopOf(df, i) ==
    Cardinality({j \in 1..(i - 1) : df[j].Driver = df[i].Driver}) + 1

pit_table_from_laps(df) ==
    LET sorted == sort_pitlaps(PitLaps(df))
    IN [i \in DOMAIN sorted |-> [sorted[i] EXCEPT !.Stop = StopOf(sorted, i)]]

---------------------------------------------------------------------------
(* Input tables *)

Unset == <<>>

TrackStatusCells ==
    {StrCell(<<"1">>), StrCell(<<" ", "1">>), StrCell(<<"4">>), IntCell(1),
     FloatCell(1), NaCell}

Green == IntCell(1)

\* Variables a specification does not use keep their initial value.
IdleJob == /\ job = "none" /\ rawExists = FALSE /\ written = {}
           /\ failedAt = "" /\ stderr = <<>> /\ exitStatus = -1
IdleResults == cl = Unset /\ st = Unset /\ deg = Unset /\ pits = Unset

jobVars == <<job, rawExists, written, failedAt, stderr, exitStatus>>

InitInput == laps = <<>> /\ pc = "input" /\ IdleResults /\ IdleJob

---------------------------------------------------------------------------
(* clean_laps on tables that vary the pit times, the track status and the  *)
(* lap time of each row                                                    *)

MaxGreenLaps == 2

AddGreenLap ==
    /\ pc = "input"
    /\ Len(laps) < MaxGreenLaps
    /\ \E t \in {NaT, 80}, pin \in {NaT, 5}, pout \in {NaT, 7},
          ts \in TrackStatusCells :
         laps' = Append(laps, Row(Len(laps), "HAM", Len(laps) + 1, t, 1, "SOFT",
                                  Len(laps) + 1, pin, pout, ts))
    /\ UNCHANGED <<pc, cl, st, deg, pits, jobVars>>

CleanLaps ==
    /\ pc = "input"
    /\ cl' = clean_laps(laps)
    /\ pc' = "cleaned"
    /\ UNCHANGED <<laps, st, deg, pits, jobVars>>

PaceFilter ==
    /\ pc = "input"
    /\ cl' = per_driver_pace_filter(laps)
    /\ pc' = "filtered"
    /\ UNCHANGED <<laps, st, deg, pits, jobVars>>

NextGreen == AddGreenLap \/ CleanLaps \/ PaceFilter
SpecGreen == InitInput /\ [][NextGreen]_vars

---------------------------------------------------------------------------
(* clean_laps on tables of two drivers with fast laps, slow laps and slow  *)
(* in-laps                                                                 *)

MaxPaceLaps == 5

AddPaceLap ==
    /\ pc = "input"
    /\ Len(laps) < MaxPaceLaps
    /\ \E d \in Drivers, k \in {<<80, NaT>>, <<200, NaT>>, <<200, 5>>} :
         laps' = Append(laps, Row(Len(laps), d, Len(laps) + 1, k[1], 1, "SOFT",
                                  Len(laps) + 1, k[2], NaT, Green))
    /\ UNCHANGED <<pc, cl, st, deg, pits, jobVars>>

NextPace == AddPaceLap \/ CleanLaps
SpecPace == InitInput /\ [][NextPace]_vars

---------------------------------------------------------------------------
(* stint_summary on cleaned tables with missing lap numbers, stints and    *)
(* compounds                                                               *)

MaxStintLaps == 3

AddStintLap ==
    /\ pc = "input"
    /\ Len(laps) < MaxStintLaps
    /\ \E d \in Drivers, n \in {NaT, Len(laps) + 1}, s \in {NaT, 1},
          c \in {NoCompound, "SOFT"} :
         laps' = Append(laps, Row(Len(laps), d, n, 80, s, c, Len(laps) + 1,
                                  NaT, NaT, Green))
    /\ UNCHANGED <<pc, cl, st, deg, pits, jobVars>>

\* main, lines 108-109: cl = clean_laps(raw); st = stint_summary(cl)
CleanThenSummarise ==
    /\ pc = "input"
    /\ cl' = clean_laps(laps)
    /\ st' = stint_summary(cl')
    /\ pc' = "summarised"
    /\ UNCHANGED <<laps, deg, pits, jobVars>>

NextStint == AddStintLap \/ CleanThenSummarise
SpecStint == InitInput /\ [][NextStint]_vars

---------------------------------------------------------------------------
(* pit_table_from_laps on tables of two drivers *)

MaxPitLaps == 3

AddPitLap ==
    /\ pc = "input"
    /\ Len(laps) < MaxPitLaps
    /\ \E d \in Drivers, n \in 1..MaxPitLaps, pin \in {NaT, 100} :
         laps' = Append(laps, Row(Len(laps), d, n, 80, 1, "SOFT", n, pin, NaT,
                                  Green))
    /\ UNCHANGED <<pc, cl, st, deg, pits, jobVars>>

PitTable ==
    /\ pc = "input"
    /\ pits' = pit_table_from_laps(laps)
    /\ pc' = "pits"
    /\ UNCHANGED <<laps, cl, st, deg, jobVars>>

NextPit == AddPitLap \/ PitTable
SpecPit == InitInput /\ [][NextPit]_vars

---------------------------------------------------------------------------
(* simple_deg_fit on cleaned tables of two compounds, each with a number   *)
(* of rows around the threshold and one to MaxAges distinct tyre ages,     *)
(* plus rows whose tyre age is missing                                     *)

MaxFitRows == 21
MaxAges == 3
MaxFitMissing == 1

\* n laps on compound comp whose tyre ages cycle through 1..k.
CompoundLaps(comp, n, k) ==
    [i \in 1..n |-> Row(0, IF i % 2 = 0 THEN "HAM" ELSE "VER", i, 80 + ((i - 1) % k),
                        1, comp, ((i - 1) % k) + 1, NaT, NaT, Green)]

\* m laps on SOFT whose tyre age is missing.
AgelessLaps(m) ==
    [i \in 1..m |-> Row(0, "HAM", i, 80, 1, "SOFT", NaT, NaT, NaT, Green)]

Reindex(df) == [i \in DOMAIN df |-> [df[i] EXCEPT !.idx = i - 1]]

FitInputs ==
    {WithSeconds(Reindex(CompoundLaps("SOFT", nS, kS) \o CompoundLaps("MEDIUM", nM, kM)
                         \o AgelessLaps(m))) :
        nS \in 0..MaxFitRows, kS \in 1..MaxAges,
        nM \in 0..MaxFitRows, kM \in 1..MaxAges, m \in 0..MaxFitMissing}

InitFit == laps \in FitInputs /\ pc = "input" /\ IdleResults /\ IdleJob

SimpleDegFit ==
    /\ pc = "input"
    /\ deg' = simple_deg_fit(laps)
    /\ pc' = "fitted"
    /\ UNCHANGED <<laps, cl, st, pits, jobVars>>

NextFit == SimpleDegFit
SpecFit == InitFit /\ [][NextFit]_vars

---------------------------------------------------------------------------
(* The two scripts' main: one run of the fetcher or of the cleaning job.   *)
(* A step named in RaisingSteps may raise for a reason outside the model   *)
(* (provider, disk, a table without the expected columns).                 *)

NotFoundError == "raw laps not found; run scripts/01_fetch_data.py first"
EnvError == "environment error"
KeyErrorCompound == "'Compound'"

Unparsable == -2               \* a LapTime cell of the file that is no duration

\* pd.to_timedelta(df[col], errors="coerce"), cell by cell.
to_timedelta(c) == IF c = Unparsable THEN NaT ELSE c

\* read_laps: the file's rows with the duration columns parsed.
MutReadLapsOtherMessage(exists, rows) ==
    IF ~exists
    THEN [raised |-> TRUE, error |-> "raw laps not found", df |-> <<>>]
    ELSE [raised |-> FALSE, error |-> "", df |-> rows]
read_laps(exists, rows) ==
    IF ~exists
    THEN [raised |-> TRUE, error |-> NotFoundError, df |-> <<>>]
    ELSE [raised |-> FALSE, error |-> "",
          df |-> [i \in DOMAIN rows |->
                    [rows[i] EXCEPT !.LapTime = to_timedelta(rows[i].LapTime),
                                    !.PitInTime = to_timedelta(rows[i].PitInTime),
                                    !.PitOutTime = to_timedelta(rows[i].PitOutTime)]]]

\* A race of n laps on SOFT with tyre ages cycling through 1..k: lap 3 has
\* the lap-time cell t3, lap 5 is slow, every tenth lap is an in-lap and the
\* lap after it an out-lap.
RaceLaps(n, k, t3) ==
    Reindex([i \in 1..n |->
        Row(0, IF i % 2 = 0 THEN "HAM" ELSE "VER", i,
            IF i = 3 THEN t3 ELSE IF i = 5 THEN 200 ELSE 80 + ((i - 1) % k),
            1, "SOFT", ((i - 1) % k) + 1,
            IF i % 10 = 0 THEN 100 + i ELSE NaT,
            IF i % 10 = 1 /\ i > 1 THEN 100 + i ELSE NaT, Green)])

ExtraRaceLaps == 6

RaceSizes == {0} \cup (MinRows..(MinRows + ExtraRaceLaps))

\* session.laps as the provider returns it (lap 3 has no time).
RaceTables == {RaceLaps(n, k, NaT) : n \in RaceSizes, k \in 2..MinDistinct}

\* The rows of data/raw/laps_hun_2022.csv: a race whose lap-3 time cell is
\* empty or is text that is no duration.
RawFiles ==
    {RaceLaps(n, k, t3) : n \in RaceSizes, k \in 2..MinDistinct,
                          t3 \in {NaT, Unparsable}}

\* The order of main's statements in each script.
MutCleanOrderWriteFirst ==
    <<"mkdir", "read_laps", "clean_laps", "write_clean", "stint_summary",
      "simple_deg_fit", "write_stint", "write_deg", "report", "exit">>
CleanOrder ==
    <<"mkdir", "read_laps", "clean_laps", "stint_summary", "simple_deg_fit",
      "write_clean", "write_stint", "write_deg", "report", "exit">>

FetchOrder ==
    <<"ensure_paths", "load_race", "write_laps", "pit_table", "write_pits",
      "report", "exit">>

Order == IF job = "fetch" THEN FetchOrder ELSE CleanOrder

NextStep(step) ==
    Order[(CHOOSE i \in DOMAIN Order : Order[i] = step) + 1]

\* The file each to_csv call writes.
FileOf(step) ==
    CASE step = "write_laps" -> "laps_hun_2022.csv"
      [] step = "write_pits" -> "pitstops_hun_2022.csv"
      [] step = "write_clean" -> "clean_laps_hun_2022.csv"
      [] step = "write_stint" -> "stint_summary_hun_2022.csv"
      [] step = "write_deg" -> "deg_compound_fit_hun_2022.csv"

WriteSteps == {"write_laps", "write_pits", "write_clean", "write_stint", "write_deg"}

RaisingSteps ==
    WriteSteps \cup {"load_race", "pit_table", "clean_laps", "stint_summary",
                     "simple_deg_fit"}

InitJobs ==
    /\ job \in {"fetch", "clean"}
    /\ pc = (IF job = "fetch" THEN FetchOrder[1] ELSE CleanOrder[1])
    /\ rawExists \in BOOLEAN
    /\ laps = Unset
    /\ IdleResults
    /\ written = {} /\ failedAt = "" /\ stderr = <<>> /\ exitStatus = -1

\* except Exception as e: print(f"error: {e}", file=sys.stderr); sys.exit(1)
Except(step, e) ==
    /\ failedAt' = step
    /\ stderr' = <<"error: ", e>>
    /\ exitStatus' = 1
    /\ pc' = "exit"

Advance == pc' = NextStep(pc) /\ UNCHANGED <<failedAt, stderr, exitStatus>>

\* OUT.mkdir(parents=True, exist_ok=True) / ensure_paths(r)
MakeDirs ==
    /\ pc \in {"mkdir", "ensure_paths"}
    /\ Advance
    /\ UNCHANGED <<laps, cl, st, deg, pits, job, rawExists, written>>

\* session = load_race(...); laps = session.laps
LoadRace ==
    /\ pc = "load_race"
    /\ \E t \in RaceTables : laps' = t
    /\ Advance
    /\ UNCHANGED <<cl, st, deg, pits, job, rawExists, written>>

\* raw = read_laps()
ReadLaps ==
    /\ pc = "read_laps"
    /\ \E t \in RawFiles :
         LET r == read_laps(rawExists, t)
         IN IF r.raised
            THEN Except(pc, r.error) /\ UNCHANGED laps
            ELSE laps' = r.df /\ Advance
    /\ UNCHANGED <<cl, st, deg, pits, job, rawExists, written>>

\* cl = clean_laps(raw)
JobCleanLaps ==
    /\ job = "clean" /\ pc = "clean_laps"
    /\ cl' = clean_laps(laps)
    /\ Advance
    /\ UNCHANGED <<laps, st, deg, pits, job, rawExists, written>>

\* st = stint_summary(cl)
JobStintSummary ==
    /\ pc = "stint_summary"
    /\ st' = stint_summary(cl)
    /\ Advance
    /\ UNCHANGED <<laps, cl, deg, pits, job, rawExists, written>>

\* deg = simple_deg_fit(cl)
JobDegFit ==
    /\ pc = "simple_deg_fit"
    /\ LET r == simple_deg_fit(cl)
       IN IF r.raised
          THEN Except(pc, r.error) /\ UNCHANGED deg
          ELSE deg' = r /\ Advance
    /\ UNCHANGED <<laps, cl, st, pits, job, rawExists, written>>

\* pit_table_from_laps(laps), the argument of the second to_csv
JobPitTable ==
    /\ pc = "pit_table"
    /\ pits' = pit_table_from_laps(laps)
    /\ Advance
    /\ UNCHANGED <<laps, cl, st, deg, job, rawExists, written>>

\* one to_csv call
WriteFile ==
    /\ pc \in WriteSteps
    /\ written' = written \cup {FileOf(pc)}
    /\ rawExists' = (rawExists \/ pc = "write_laps")
    /\ Advance
    /\ UNCHANGED <<laps, cl, st, deg, pits, job>>

\* the prints after the writes, then the normal return
Report ==
    /\ pc = "report"
    /\ exitStatus' = 0
    /\ pc' = NextStep(pc)
    /\ UNCHANGED <<laps, cl, st, deg, pits, job, rawExists, written, failedAt,
                   stderr>>

\* the step raises for a reason outside the model
StepRaises ==
    /\ pc \in RaisingSteps
    /\ Except(pc, EnvError)
    /\ UNCHANGED <<laps, cl, st, deg, pits, job, rawExists, written>>

NextJobs ==
    \/ MakeDirs \/ LoadRace \/ ReadLaps \/ JobCleanLaps \/ JobStintSummary
    \/ JobDegFit \/ JobPitTable \/ WriteFile \/ Report \/ StepRaises
SpecJobs == InitJobs /\ [][NextJobs]_vars

---------------------------------------------------------------------------
(* Properties of clean_laps *)

RowsOfDriver(df, d) == SelectSeq(df, LAMBDA r : r.Driver = d)

\* C1: every row of the output of clean_laps has both PitInTime and
\* PitOutTime missing, whatever its track status or lap time.
C1_NoInOutLapSurvives ==
    pc = "cleaned" =>
        \A r \in Range(cl) : r.PitInTime = NaT /\ r.PitOutTime = NaT

\* An in-lap and an out-lap with a valid time under green were given, and a
\* lap did survive.
C1_Witness ==
    /\ pc = "cleaned"
    /\ \E r \in Range(laps) : r.PitInTime # NaT /\ r.PitOutTime = NaT
                              /\ r.LapTime # NaT /\ is_green(r.TrackStatus)
    /\ \E r \in Range(laps) : r.PitOutTime # NaT /\ r.PitInTime = NaT
                              /\ r.LapTime # NaT /\ is_green(r.TrackStatus)

\* The trimmed string form of a track status is "1".
TrimsToOne(ts) == strip(astype_str(ts)) = <<"1">>

\* C2: every row of the output of clean_laps has a track status that is
\* missing or whose trimmed string form is "1", and the green-flag step
\* removes no row whose track status is missing or trims to "1".
C2_GreenOnly ==
    pc = "cleaned" =>
        /\ \A r \in Range(cl) : isna(r.TrackStatus) \/ TrimsToOne(r.TrackStatus)
        /\ \A r \in Range(ValidLapTime(laps)) :
              (isna(r.TrackStatus) \/ TrimsToOne(r.TrackStatus))
                  => r \in Range(GreenOnly(ValidLapTime(laps)))

\* A lap with status " 1" survived, and a lap with a valid time, no pit
\* time and a status other than "1" (the text "4" or the float 1.0) was
\* given and did not.
C2_Witness ==
    /\ pc = "cleaned"
    /\ \E r \in Range(cl) : r.TrackStatus = StrCell(<<" ", "1">>)
    /\ \E r \in Range(laps) :
          /\ r.TrackStatus \in {StrCell(<<"4">>), FloatCell(1)}
          /\ r.LapTime # NaT /\ r.PitInTime = NaT /\ r.PitOutTime = NaT
          /\ r.idx \notin {q.idx : q \in Range(cl)}

\* The upper fence of driver d, times 8, over d's laps that passed steps 1-3.
DriverFence8(df, d) == Fence8(TimesOf(RowsOfDriver(WithSeconds(Steps123(df)), d)))

C9_NoMissingLapTime ==
    pc = "filtered" =>
        /\ \A r \in Range(cl) : r.LapTime_s # NaT
        /\ \A d \in Drivers :
              (\A r \in Range(RowsOfDriver(laps, d)) : r.LapTime = NaT)
                  => RowsOfDriver(cl, d) = <<>>

---------------------------------------------------------------------------
(* Properties of stint_summary *)

RECURSIVE SumLaps(_)
SumLaps(rows) == IF rows = <<>> THEN 0 ELSE Head(rows).laps + SumLaps(Tail(rows))

\* C4: for every driver, the laps counts of the driver's stint-summary rows
\* sum to the number of the driver's cleaned laps.
C4_LapsSumToCleaned ==
    pc = "summarised" =>
        \A d \in Drivers : SumLaps(RowsOfDriver(st, d)) = Len(RowsOfDriver(cl, d))

---------------------------------------------------------------------------
(* Properties of pit_table_from_laps *)

\* C6: for every driver the stop numbers are exactly 1..N, N the number of
\* the driver's laps with a pit-in time, one row per stop, and of two stops
\* of a driver the one with the larger in-lap has the larger stop number.
C6_StopsContiguous ==
    pc = "pits" =>
        \A d \in Drivers :
            LET n == Len(SelectSeq(RowsOfDriver(laps, d),
                                   LAMBDA r : r.PitInTime # NaT))
                stops == RowsOfDriver(pits, d)
            IN /\ Len(stops) = n
               /\ {r.Stop : r \in Range(stops)} = 1..n
               /\ \A a, b \in Range(stops) :
                     (a.InLap # NaT /\ b.InLap # NaT /\ a.InLap < b.InLap)
                         => a.Stop < b.Stop

\* A driver's two stops were given with the later in-lap first.
C6_Witness ==
    /\ pc = "pits"
    /\ \E i, j \in DOMAIN laps :
          /\ i < j
          /\ laps[i].Driver = laps[j].Driver
          /\ laps[i].PitInTime # NaT /\ laps[j].PitInTime # NaT
          /\ laps[i].LapNumber > laps[j].LapNumber
    /\ \E r \in Range(pits) : r.Stop = 2

---------------------------------------------------------------------------
(* Properties of simple_deg_fit *)

\* The rows of df that count for compound c: lap time, tyre age and compound
\* all present.
Qualifying(df, c) ==
    SelectSeq(df, LAMBDA r : r.Compound = c /\ r.LapTime_s # NaT /\ r.TyreLife # NaT)

FitRowsFor(c) == IF deg.raised THEN 0 ELSE Len(SelectSeq(deg.rows, LAMBDA r : r.Compound = c))

\* C5: the output of simple_deg_fit holds exactly one row for a compound if
\* and only if the compound has at least 20 qualifying rows and at least 3
\* distinct tyre ages among them, and no row for it otherwise.
C5_FitIffThresholds ==
    pc = "fitted" =>
        \A c \in {"SOFT", "MEDIUM"} :
            LET q == Qualifying(laps, c)
                enough == Len(q) >= 20
                          /\ Cardinality({r.TyreLife : r \in Range(q)}) >= 3
            IN /\ FitRowsFor(c) \in {0, 1}
               /\ FitRowsFor(c) = 1 <=> enough

\* SOFT has exactly 20 qualifying rows and a row in the output; MEDIUM has 19
\* and none.
C5_Witness ==
    /\ pc = "fitted"
    /\ Len(Qualifying(laps, "SOFT")) = 20
    /\ Len(Qualifying(laps, "MEDIUM")) = 19
    /\ FitRowsFor("SOFT") = 1
    /\ FitRowsFor("MEDIUM") = 0

---------------------------------------------------------------------------
(* Properties of the jobs *)

CleanOutputs ==
    {"clean_laps_hun_2022.csv", "stint_summary_hun_2022.csv",
     "deg_compound_fit_hun_2022.csv"}

\* C7: when the raw lap file is absent, the cleaning job ends with exit
\* status 1 after printing an error that names scripts/01_fetch_data.py, and
\* has run no cleaning, aggregation or fitting step and written no file.
C7_MissingRawFile ==
    (job = "clean" /\ ~rawExists /\ pc = "exit") =>
        /\ exitStatus = 1
        /\ stderr = <<"error: ", "raw laps not found; run scripts/01_fetch_data.py first">>
        /\ cl = Unset /\ st = Unset /\ deg = Unset
        /\ written = {}

C7_Witness ==
    job = "clean" /\ ~rawExists /\ pc = "exit" /\ failedAt = "read_laps"

\* C8 as claimed: in every run that ends with exit status 1, none of the
\* job's output files has been written during the run.
C8_NothingWrittenOnFailure ==
    exitStatus = 1 => written = {}

\* The files whose to_csv call comes before a step in the script's text.
WrittenBefore(step) ==
    CASE step \in {"pit_table", "write_pits"} -> {"laps_hun_2022.csv"}
      [] step = "write_stint" -> {"clean_laps_hun_2022.csv"}
      [] step = "write_deg" ->
            {"clean_laps_hun_2022.csv", "stint_summary_hun_2022.csv"}
      [] OTHER -> {}

\* C8, amended: in every run that ends with exit status 1, the files written
\* during the run are exactly those whose write comes before the step that
\* raised: none for the fetch, read_laps, cleaning, stint summary, degradation
\* fit and the job's first write.
C8_WrittenUpToFailure ==
    exitStatus = 1 => written = WrittenBefore(failedAt)

C8_Witness ==
    /\ exitStatus = 1
    /\ failedAt = "simple_deg_fit"
    /\ stderr = <<"error: ", EnvError>>
    /\ written = {}

\* C10: simple_deg_fit never raises, so a cleaning job whose raw file exists
\* and that meets no environment error writes its three files and exits
\* normally, also when no compound group meets the thresholds.
C10_FitNeverRaises ==
    (job = "clean" /\ pc = "exit" /\ rawExists /\ stderr # <<"error: ", EnvError>>) =>
        /\ exitStatus = 0
        /\ written = CleanOutputs

=============================================================================
